---- MODULE Spec2Model ----
(***************************************************************************)
(* Emulator session manager of browser-ig.                                 *)
(*                                                                         *)
(* The model follows the VNC-relay server (src/unnamed/part_000) and, for  *)
(* the display allocator, the round-robin server (src/server.js).          *)
(*                                                                         *)
(* Node runs every handler to completion, so each request handler, timer   *)
(* callback and process event is one action.  The only suspension point    *)
(* inside a handler is the await on ensureImageAvailable in                *)
(* startQemuEmulator; a create is therefore two actions.                   *)
(*                                                                         *)
(* Text is a sequence of tokens [k, v, n]: k says which statement wrote    *)
(* the character, v carries its payload (exit code, line number) and n is  *)
(* its position in everything ever appended to that session's buffer.      *)
(* Sizes are scaled: the pool has NumDisplays slots instead of 100 and the *)
(* buffer cap is MAX_BUFFER_SIZE tokens instead of 50000 characters; each  *)
(* fixed message (banner, status line, simulated line) is one token.       *)
(***************************************************************************)
EXTENDS Integers, Sequences, FiniteSets, TLC

\* ---------------------------------------------------------------- bounds
\* Sessions one behaviour of SpecPool may create; SpecWide has one more.
MaxSessions == 2
\* Size of the display pool (the literal 100 of getAvailableVncDisplay, scaled).
NumDisplays == 2
\* Cap of the output buffer in tokens (MAX_BUFFER_SIZE = 50000, scaled).
MAX_BUFFER_SIZE == 12
\* stdout/stderr data events of a real process in one behaviour.
MaxData == 2
\* Allocator calls in one behaviour of the allocator specification.
MaxOps == 5
\* Removal timers of one session that SpecRelay tells apart.
MaxTimers == 2
\* Relay links one behaviour may accept.
MaxLinks == 1
\* messages a relay link receives from each of its two ends
MaxMsgs == 2

\* ------------------------------------------------------------- constants
\* Number of setTimeout calls in simulateQemu.
NumSimLines == 9
\* the line 'Browser environment ready!' is the eighth of them
ReadyLine == 8

Null == "null"
Exhausted == -1
\* SpecWide: a stopped session and two that outlive it.
WideSessions == MaxSessions + 1
\* The round-robin server needs one more session than displays to wrap.
RRSessions == NumDisplays + 1
Ids == 1..(IF WideSessions >= RRSessions THEN WideSessions ELSE RRSessions)
ExitCodes == {0, 1}
\* Lengths of the chunks a real process writes: one character, and a chunk
\* longer than the whole buffer.
ChunkLens == {1, MAX_BUFFER_SIZE + 1}

\* f with key k set to v (Map.prototype.set)
Put(f, k, v) == [i \in DOMAIN f \cup {k} |-> IF i = k THEN v ELSE f[i]]

Max(a, b) == IF a >= b THEN a ELSE b
Min(a, b) == IF a <= b THEN a ELSE b

VARIABLES
    usedVncDisplays,   \* the Set usedVncDisplays
    nextVncDisplay,    \* server.js: the round-robin counter
    server,            \* the server process: "up" or "exited"
    emulators,         \* keys of the Map emulators
    emulatorData,      \* the emulatorData objects built so far, by id
    nextId,            \* ids are fresh: the next uuid
    awaiting,          \* creates suspended at the await: id -> its vncDisplay
    proc,              \* the child process: "none", "alive", "killed", "exited"
    procErrored,       \* the child process has emitted 'error'
    removalTimer,      \* pending setTimeout(delete, 5000) callbacks per id, see Stop
    vncInfoTimer,      \* pending setTimeout(VNC info, 500) per id
    simFired,          \* simulateQemu timers that have fired per id
    stream,            \* history of each buffer: see NoStream
    dataEvents,        \* stdout/stderr data events so far
    response,          \* the last HTTP response sent
    opLog,             \* allocator specification: the calls made so far
    links              \* the relay links accepted so far: see Upgrade

vars == <<usedVncDisplays, nextVncDisplay, server, emulators, emulatorData, nextId,
          awaiting, proc, procErrored, removalTimer, vncInfoTimer, simFired,
          stream, dataEvents, response, opLog, links>>

\* ------------------------------------------------------------------ text
Tok(k, v, n) == [k |-> k, v |-> v, n |-> n]

\* count tokens of kind k (payload v) that continue a stream of `from` tokens
Text(k, v, from, count) == [i \in 1..count |-> Tok(k, v, from + i)]

\* String.prototype.substring(start): start is clamped into [0, length]
substring(s, start) ==
    LET st == Min(Max(start, 0), Len(s))
    IN  SubSeq(s, st + 1, Len(s))

\* An HTTP response: the handler, the status code and the body fields
\* (emulatorId, output, running, the list of summaries, and hasImage,
\* which only the create response sets).
Respond(op, status, id, output, running, list) ==
    [op |-> op, status |-> status, id |-> id, output |-> output,
     running |-> running, list |-> list, hasImage |-> FALSE]
NoResponse == Respond("none", 0, 0, <<>>, FALSE, {})

\* History of one buffer, kept beside the program state: written counts
\* the tokens ever appended, readAt is written as of the last status read,
\* appends counts the appends since that read and trimmed says whether one
\* of them cut the front of the buffer.
NoStream == [written |-> 0, readAt |-> 0, appends |-> 0, trimmed |-> FALSE]
Appended(s, count, trims) ==
    [s EXCEPT !.written = @ + count, !.appends = @ + 1, !.trimmed = @ \/ trims]
WasRead(s) == [s EXCEPT !.readAt = s.written, !.appends = 0, !.trimmed = FALSE]
Overflows(e, count) == Len(e.outputBuffer) + count > MAX_BUFFER_SIZE

\* ------------------------------------------------------------- allocator
RECURSIVE firstFree(_, _)
firstFree(display, used) ==
    IF display >= NumDisplays THEN Exhausted
    ELSE IF display \notin used THEN display
    ELSE firstFree(display + 1, used)

\* Mutant: the scan starts at display 1.
getAvailableVncDisplay_from1(used) == firstFree(1, used)

\* The display getAvailableVncDisplay returns, Exhausted when it throws.
getAvailableVncDisplay(used) == firstFree(0, used)

\* The used set after getAvailableVncDisplay.
usedAfterAcquire(used) ==
    IF getAvailableVncDisplay(used) = Exhausted THEN used
    ELSE used \cup {getAvailableVncDisplay(used)}

\* Mutant: release toggles membership.
releaseVncDisplay_toggle(used, display) ==
    IF display \in used THEN used \ {display} ELSE used \cup {display}

releaseVncDisplay(used, display) == used \ {display}

\* ---------------------------------------------------------- buffer steps
\* Mutant: the trim forgets to move the read cursor.
appendTrimmed_noShift(e, text) ==
    LET buf == e.outputBuffer \o text
        excessLength == Len(buf) - MAX_BUFFER_SIZE
    IN  IF Len(buf) > MAX_BUFFER_SIZE
        THEN [e EXCEPT !.outputBuffer = substring(buf, excessLength)]
        ELSE [e EXCEPT !.outputBuffer = buf]

\* Mutant: the trim rewinds the read cursor to the start of the buffer.
appendTrimmed_rewind(e, text) ==
    LET buf == e.outputBuffer \o text
        excessLength == Len(buf) - MAX_BUFFER_SIZE
    IN  IF Len(buf) > MAX_BUFFER_SIZE
        THEN [e EXCEPT !.outputBuffer = substring(buf, excessLength),
                       !.lastReadPosition = 0]
        ELSE [e EXCEPT !.outputBuffer = buf]

\* The body shared by the stdout and stderr 'data' handlers.
appendTrimmed(e, text) ==
    LET buf == e.outputBuffer \o text
        excessLength == Len(buf) - MAX_BUFFER_SIZE
    IN  IF Len(buf) > MAX_BUFFER_SIZE
        THEN [e EXCEPT !.outputBuffer = substring(buf, excessLength),
                       !.lastReadPosition = Max(0, e.lastReadPosition - excessLength)]
        ELSE [e EXCEPT !.outputBuffer = buf]

\* Mutant: the text is not recorded.
appendRaw_none(e, text) == e

\* emulator.outputBuffer += text, with no trimming.
appendRaw(e, text) == [e EXCEPT !.outputBuffer = e.outputBuffer \o text]

\* Mutant: the 'close' handler flips the flag instead of clearing it.
onClose_toggle(e, code, n) ==
    appendRaw([e EXCEPT !.running = ~e.running], <<Tok("stopped", code, n + 1)>>)

\* The 'close' handler of setupProcessHandlers, on the emulator object.
onClose(e, code, n) ==
    appendRaw([e EXCEPT !.running = FALSE], <<Tok("stopped", code, n + 1)>>)

\* Mutant: the 'error' handler clears the flag and writes nothing.
onError_silent(e, n) == [e EXCEPT !.running = FALSE]

\* The 'error' handler of setupProcessHandlers, on the emulator object.
onError(e, n) ==
    appendRaw([e EXCEPT !.running = FALSE], <<Tok("error", 0, n + 1)>>)

\* -------------------------------------------------------------- initial
Init ==
    /\ usedVncDisplays = {}
    /\ nextVncDisplay = 0
    /\ server = "up"
    /\ emulators = {}
    /\ emulatorData = [i \in {} |-> Null]
    /\ nextId = 1
    /\ awaiting = [i \in {} |-> 0]
    /\ proc = [i \in Ids |-> "none"]
    /\ procErrored = [i \in Ids |-> FALSE]
    /\ removalTimer = [i \in Ids |-> 0]
    /\ vncInfoTimer = [i \in Ids |-> FALSE]
    /\ simFired = [i \in Ids |-> 0]
    /\ stream = [i \in Ids |-> NoStream]
    /\ dataEvents = 0
    /\ response = NoResponse
    /\ opLog = <<>>
    /\ links = <<>>

\* --------------------------------------------------------------- create
\* Mutant: an exhausted pool does not throw; the create goes on with
\* display 0.
StartEmulator_noThrow(maxId) ==
    /\ nextId \in Ids
    /\ LET free == getAvailableVncDisplay(usedVncDisplays)
           vncDisplay == IF free = Exhausted THEN 0 ELSE free
       IN  /\ usedVncDisplays' = usedVncDisplays \cup {vncDisplay}
           /\ awaiting' = Put(awaiting, nextId, vncDisplay)
    /\ nextId' = nextId + 1
    /\ UNCHANGED <<nextVncDisplay, server, emulators, emulatorData, proc, procErrored,
                   removalTimer, vncInfoTimer, simFired, stream, dataEvents,
                   response, opLog, links>>

\* POST /api/start-emulator up to the await in startQemuEmulator: the id is
\* drawn and the display acquired.  An exhausted pool throws into the
\* handler's catch, which answers 500; the uuid drawn by that call is
\* stored nowhere, so it is not counted.  maxId bounds the ids handed out.
StartEmulator(maxId) ==
    /\ LET vncDisplay == getAvailableVncDisplay(usedVncDisplays)
       IN  IF vncDisplay = Exhausted
           THEN /\ response' = Respond("create", 500, 0, <<>>, FALSE, {})
                /\ UNCHANGED <<usedVncDisplays, awaiting, nextId>>
           ELSE /\ nextId <= maxId
                /\ usedVncDisplays' = usedAfterAcquire(usedVncDisplays)
                /\ awaiting' = Put(awaiting, nextId, vncDisplay)
                /\ nextId' = nextId + 1
                /\ UNCHANGED response
    /\ UNCHANGED <<nextVncDisplay, server, emulators, emulatorData, proc, procErrored,
                   removalTimer, vncInfoTimer, simFired, stream, dataEvents, opLog, links>>

\* The keys of the object literal browserConfigs, and property names it
\* inherits from Object.prototype: browserConfigs[name] is an object for
\* the former and a function or an object for the latter, all truthy.
browserConfigs == {"midori", "waterfox", "brave"}
ObjectPrototype == {"constructor", "toString", "valueOf", "hasOwnProperty", "__proto__"}

\* A field that is absent from the request body (undefined, falsy).
Missing == ""

\* The checks of POST /api/start-emulator: the status they answer, 200
\* when all of them pass.
validate(browser, ram, vram) ==
    IF browser = Missing \/ browser \notin (browserConfigs \cup ObjectPrototype) THEN 400
    ELSE IF ram = Missing THEN 400
    ELSE IF vram = Missing THEN 400
    ELSE 200

\* POST /api/start-emulator with the body {browser, ram, vram}: the
\* validation, and for a request that passes it the call of
\* startQemuEmulator up to its await.
PostStartEmulator(browser, ram, vram, maxId) ==
    IF validate(browser, ram, vram) = 400
    THEN /\ response' = Respond("create", 400, 0, <<>>, FALSE, {})
         /\ UNCHANGED <<usedVncDisplays, nextVncDisplay, server, emulators, emulatorData,
                        nextId, awaiting, proc, procErrored, removalTimer,
                        vncInfoTimer, simFired, stream, dataEvents, opLog, links>>
    ELSE StartEmulator(maxId)

\* server.js: the same step with the round-robin getAvailableVncDisplay.
StartEmulatorRR ==
    /\ nextId <= RRSessions
    /\ awaiting' = Put(awaiting, nextId, nextVncDisplay)
    /\ nextVncDisplay' = (nextVncDisplay + 1) % NumDisplays
    /\ nextId' = nextId + 1
    /\ UNCHANGED <<usedVncDisplays, server, emulators, emulatorData, proc, procErrored,
                   removalTimer, vncInfoTimer, simFired, stream, dataEvents,
                   response, opLog, links>>

\* startQemuEmulator after the await, and the response of the POST handler.
\* imagePath: ensureImageAvailable found or fetched the image; qemuPath:
\* findQemu found the binary; spawnThrows: spawn threw synchronously.
ResumeEmulator(id, imagePath, qemuPath, spawnThrows) ==
    /\ id \in DOMAIN awaiting
    /\ LET outputBuffer == <<Tok("init", 0, 1)>>
           data == [process |-> Null,
                    outputBuffer |-> outputBuffer,
                    lastReadPosition |-> 0,
                    running |-> TRUE,
                    vncDisplay |-> awaiting[id],
                    vncPort |-> 5900 + awaiting[id],
                    imagePath |-> imagePath]
       IN  /\ emulators' = emulators \cup {id}
           /\ awaiting' = [i \in DOMAIN awaiting \ {id} |-> awaiting[i]]
           /\ response' = [Respond("create", 200, id, outputBuffer, TRUE, {})
                              EXCEPT !.hasImage = imagePath]
           /\ IF qemuPath /\ imagePath
              THEN IF spawnThrows
                   THEN /\ emulatorData' = Put(emulatorData, id,
                               [appendRaw(data, <<Tok("spawnerr", 0, 2)>>)
                                   EXCEPT !.running = FALSE])
                        /\ stream' = [stream EXCEPT ![id] =
                               Appended(Appended(NoStream, 1, FALSE), 1, FALSE)]
                        /\ UNCHANGED <<proc, vncInfoTimer>>
                   ELSE /\ emulatorData' = Put(emulatorData, id,
                               [data EXCEPT !.process = "qemu"])
                        /\ stream' = [stream EXCEPT ![id] = Appended(NoStream, 1, FALSE)]
                        /\ proc' = [proc EXCEPT ![id] = "alive"]
                        /\ vncInfoTimer' = [vncInfoTimer EXCEPT ![id] = TRUE]
              ELSE /\ ~spawnThrows
                   /\ emulatorData' = Put(emulatorData, id,
                          [data EXCEPT !.process = "sim"])
                   /\ stream' = [stream EXCEPT ![id] = Appended(NoStream, 1, FALSE)]
                   /\ proc' = [proc EXCEPT ![id] = "alive"]
                   /\ UNCHANGED vncInfoTimer
    /\ UNCHANGED <<usedVncDisplays, nextVncDisplay, server, nextId, procErrored,
                   removalTimer, simFired, dataEvents, opLog, links>>

\* ------------------------------------------------------- process events
\* 'close' of a real child process: it exited by itself or after SIGTERM.
\* releases: the handler ends with releaseVncDisplay (part_000) or not
\* (server.js).
CloseEvent(id, code, releases) ==
    /\ id \in DOMAIN emulatorData
    /\ emulatorData[id].process = "qemu"
    /\ proc[id] \in {"alive", "killed"}
    /\ proc' = [proc EXCEPT ![id] = "exited"]
    /\ emulatorData' = [emulatorData EXCEPT ![id] = onClose(@, code, stream[id].written)]
    /\ stream' = [stream EXCEPT ![id] = Appended(@, 1, FALSE)]
    /\ usedVncDisplays' =
          IF releases THEN releaseVncDisplay(usedVncDisplays, emulatorData[id].vncDisplay)
          ELSE usedVncDisplays
    /\ UNCHANGED <<nextVncDisplay, server, emulators, nextId, awaiting, procErrored,
                   removalTimer, vncInfoTimer, simFired, dataEvents, response, opLog, links>>

\* 'error' of a real child process (it could not be spawned or killed).
ErrorEvent(id, releases) ==
    /\ id \in DOMAIN emulatorData
    /\ emulatorData[id].process = "qemu"
    /\ proc[id] \in {"alive", "killed"}
    /\ ~procErrored[id]
    /\ procErrored' = [procErrored EXCEPT ![id] = TRUE]
    /\ emulatorData' = [emulatorData EXCEPT ![id] = onError(@, stream[id].written)]
    /\ stream' = [stream EXCEPT ![id] = Appended(@, 1, FALSE)]
    /\ usedVncDisplays' =
          IF releases THEN releaseVncDisplay(usedVncDisplays, emulatorData[id].vncDisplay)
          ELSE usedVncDisplays
    /\ UNCHANGED <<nextVncDisplay, server, emulators, nextId, awaiting, proc,
                   removalTimer, vncInfoTimer, simFired, dataEvents, response, opLog, links>>

ProcClose(id, code) == CloseEvent(id, code, TRUE)
ProcError(id) == ErrorEvent(id, TRUE)
ProcCloseRR(id, code) == CloseEvent(id, code, FALSE)
ProcErrorRR(id) == ErrorEvent(id, FALSE)

\* The 500 ms timer set after a real spawn.
VncInfoTimer(id) ==
    /\ vncInfoTimer[id]
    /\ vncInfoTimer' = [vncInfoTimer EXCEPT ![id] = FALSE]
    /\ IF id \in emulators
       THEN /\ emulatorData' = [emulatorData EXCEPT ![id] =
                   appendRaw(appendRaw(@, <<Tok("vncinfo", 1, stream[id].written + 1)>>),
                             <<Tok("vncinfo", 2, stream[id].written + 2)>>)]
            /\ stream' = [stream EXCEPT ![id] = Appended(Appended(@, 1, FALSE), 1, FALSE)]
       ELSE UNCHANGED <<emulatorData, stream>>
    /\ UNCHANGED <<usedVncDisplays, nextVncDisplay, server, emulators, nextId, awaiting,
                   proc, procErrored, removalTimer, simFired, dataEvents, response,
                   opLog, links>>

\* stdout 'data' of a real child process: a chunk of len characters, which
\* carry the arrival number of the chunk.
StdoutData(id, len) ==
    /\ id \in DOMAIN emulatorData
    /\ emulatorData[id].process = "qemu"
    /\ proc[id] \in {"alive", "killed"}
    /\ dataEvents < MaxData
    /\ dataEvents' = dataEvents + 1
    /\ emulatorData' = [emulatorData EXCEPT ![id] =
          appendTrimmed(@, Text("out", dataEvents + 1, stream[id].written, len))]
    /\ stream' = [stream EXCEPT ![id] = Appended(@, len, Overflows(emulatorData[id], len))]
    /\ UNCHANGED <<usedVncDisplays, nextVncDisplay, server, emulators, nextId, awaiting,
                   proc, procErrored, removalTimer, vncInfoTimer, simFired,
                   response, opLog, links>>

\* Mutant: a chunk of stderr is appended without the prefix.
StderrData_untagged(id, len) ==
    /\ id \in DOMAIN emulatorData
    /\ emulatorData[id].process = "qemu"
    /\ proc[id] \in {"alive", "killed"}
    /\ dataEvents < MaxData
    /\ dataEvents' = dataEvents + 1
    /\ emulatorData' = [emulatorData EXCEPT ![id] =
          appendTrimmed(@, Text("err", dataEvents + 1, stream[id].written, len))]
    /\ stream' = [stream EXCEPT ![id] = Appended(@, len, Overflows(emulatorData[id], len))]
    /\ UNCHANGED <<usedVncDisplays, nextVncDisplay, server, emulators, nextId, awaiting,
                   proc, procErrored, removalTimer, vncInfoTimer, simFired,
                   response, opLog, links>>

\* stderr 'data' of a real child process: the chunk is prefixed 'ERROR: '.
StderrData(id, len) ==
    /\ id \in DOMAIN emulatorData
    /\ emulatorData[id].process = "qemu"
    /\ proc[id] \in {"alive", "killed"}
    /\ dataEvents < MaxData
    /\ dataEvents' = dataEvents + 1
    /\ emulatorData' = [emulatorData EXCEPT ![id] =
          appendTrimmed(@, <<Tok("tag", dataEvents + 1, stream[id].written + 1)>>
                            \o Text("err", dataEvents + 1, stream[id].written + 1, len))]
    /\ stream' = [stream EXCEPT ![id] =
          Appended(@, len + 1, Overflows(emulatorData[id], len + 1))]
    /\ UNCHANGED <<usedVncDisplays, nextVncDisplay, server, emulators, nextId, awaiting,
                   proc, procErrored, removalTimer, vncInfoTimer, simFired,
                   response, opLog, links>>

\* Mutant: the timer of the ready line is set to fire before the timers of
\* the two display lines.
SimDelay_readyEarly(line) == IF line = ReadyLine THEN 2750 ELSE 500 * line

\* simulateQemu sets one timer per line, all in one turn: the delay in ms
\* of the timer that emits the line-th line of the function body.
SimDelay(line) == 500 * line

\* Timers set in one turn fire in the order of their delays: the line
\* whose timer is the k-th to fire.
nthSimLine(k) ==
    CHOOSE line \in 1..NumSimLines :
        Cardinality({m \in 1..NumSimLines : SimDelay(m) < SimDelay(line)}) = k - 1

\* Mutant: the simulated producer stops before the ready line.
SimTimer_short(id) ==
    /\ id \in DOMAIN emulatorData
    /\ emulatorData[id].process = "sim"
    /\ simFired[id] < ReadyLine - 1
    /\ simFired' = [simFired EXCEPT ![id] = @ + 1]
    /\ emulatorData' = [emulatorData EXCEPT ![id] =
          appendTrimmed(@, <<Tok("sim", simFired[id] + 1, stream[id].written + 1)>>)]
    /\ stream' = [stream EXCEPT ![id] = Appended(@, 1, Overflows(emulatorData[id], 1))]
    /\ UNCHANGED <<usedVncDisplays, nextVncDisplay, server, emulators, nextId, awaiting,
                   proc, procErrored, removalTimer, vncInfoTimer, dataEvents,
                   response, opLog, links>>

\* One of the timers of simulateQemu fires: the next line arrives on the
\* simulated stdout.  The timers are not cancelled by kill().
SimTimer(id) ==
    /\ id \in DOMAIN emulatorData
    /\ emulatorData[id].process = "sim"
    /\ simFired[id] < NumSimLines
    /\ simFired' = [simFired EXCEPT ![id] = @ + 1]
    /\ emulatorData' = [emulatorData EXCEPT ![id] =
          appendTrimmed(@, <<Tok("sim", nthSimLine(simFired[id] + 1),
                                 stream[id].written + 1)>>)]
    /\ stream' = [stream EXCEPT ![id] = Appended(@, 1, Overflows(emulatorData[id], 1))]
    /\ UNCHANGED <<usedVncDisplays, nextVncDisplay, server, emulators, nextId, awaiting,
                   proc, procErrored, removalTimer, vncInfoTimer, dataEvents,
                   response, opLog, links>>

\* ---------------------------------------------------------------- status
\* Sessions of the registry that are marked running.
Running == {id \in emulators : emulatorData[id].running}

\* Mutant: the status handler does not advance the cursor.
EmulatorStatus_peek(id) ==
    IF id \notin emulators
    THEN /\ response' = Respond("status", 404, 0, <<>>, FALSE, {})
         /\ UNCHANGED <<usedVncDisplays, nextVncDisplay, server, emulators, emulatorData,
                        nextId, awaiting, proc, procErrored, removalTimer,
                        vncInfoTimer, simFired, stream, dataEvents, opLog, links>>
    ELSE LET emulator == emulatorData[id]
             newOutput == substring(emulator.outputBuffer, emulator.lastReadPosition)
         IN  /\ response' = Respond("status", 200, 0, newOutput, emulator.running, {})
             /\ stream' = [stream EXCEPT ![id] = WasRead(@)]
             /\ UNCHANGED <<usedVncDisplays, nextVncDisplay, server, emulators, emulatorData,
                            nextId, awaiting, proc, procErrored, removalTimer,
                            vncInfoTimer, simFired, dataEvents, opLog, links>>

\* Mutant: the status handler also finds sessions that were removed.
EmulatorStatus_stale(id) ==
    IF id \notin DOMAIN emulatorData
    THEN /\ response' = Respond("status", 404, 0, <<>>, FALSE, {})
         /\ UNCHANGED <<usedVncDisplays, nextVncDisplay, server, emulators, emulatorData,
                        nextId, awaiting, proc, procErrored, removalTimer,
                        vncInfoTimer, simFired, stream, dataEvents, opLog, links>>
    ELSE LET emulator == emulatorData[id]
             newOutput == substring(emulator.outputBuffer, emulator.lastReadPosition)
         IN  /\ emulatorData' = [emulatorData EXCEPT
                    ![id].lastReadPosition = Len(emulator.outputBuffer)]
             /\ response' = Respond("status", 200, 0, newOutput, emulator.running, {})
             /\ stream' = [stream EXCEPT ![id] = WasRead(@)]
             /\ UNCHANGED <<usedVncDisplays, nextVncDisplay, server, emulators, nextId,
                            awaiting, proc, procErrored, removalTimer, vncInfoTimer,
                            simFired, dataEvents, opLog, links>>

\* GET /api/emulator-status/:id
EmulatorStatus(id) ==
    IF id \notin emulators
    THEN /\ response' = Respond("status", 404, 0, <<>>, FALSE, {})
         /\ UNCHANGED <<usedVncDisplays, nextVncDisplay, server, emulators, emulatorData,
                        nextId, awaiting, proc, procErrored, removalTimer,
                        vncInfoTimer, simFired, stream, dataEvents, opLog, links>>
    ELSE LET emulator == emulatorData[id]
             newOutput == substring(emulator.outputBuffer, emulator.lastReadPosition)
         IN  /\ emulatorData' = [emulatorData EXCEPT
                    ![id].lastReadPosition = Len(emulator.outputBuffer)]
             /\ response' = Respond("status", 200, 0, newOutput, emulator.running, {})
             /\ stream' = [stream EXCEPT ![id] = WasRead(@)]
             /\ UNCHANGED <<usedVncDisplays, nextVncDisplay, server, emulators, nextId,
                            awaiting, proc, procErrored, removalTimer, vncInfoTimer,
                            simFired, dataEvents, opLog, links>>

\* Mutant: listing also drops the sessions that are not running.
ListEmulators_prune ==
    /\ response' = Respond("list", 200, 0, <<>>, FALSE,
          {[id |-> i, running |-> emulatorData[i].running] : i \in emulators})
    /\ emulators' = Running
    /\ UNCHANGED <<usedVncDisplays, nextVncDisplay, server, emulatorData,
                   nextId, awaiting, proc, procErrored, removalTimer,
                   vncInfoTimer, simFired, stream, dataEvents, opLog, links>>

\* GET /api/emulators
ListEmulators ==
    /\ response' = Respond("list", 200, 0, <<>>, FALSE,
          {[id |-> i, running |-> emulatorData[i].running] : i \in emulators})
    /\ UNCHANGED <<usedVncDisplays, nextVncDisplay, server, emulators, emulatorData,
                   nextId, awaiting, proc, procErrored, removalTimer,
                   vncInfoTimer, simFired, stream, dataEvents, opLog, links>>

\* ------------------------------------------------------------------ stop
\* Mutant: the stop handler leaves the running flag to the 'close' handler.
Stop_async(id, releases, cap) ==
    IF id \notin emulators
    THEN /\ response' = Respond("stop", 404, 0, <<>>, FALSE, {})
         /\ UNCHANGED <<usedVncDisplays, nextVncDisplay, server, emulators, emulatorData,
                        nextId, awaiting, proc, procErrored, removalTimer,
                        vncInfoTimer, simFired, stream, dataEvents, opLog, links>>
    ELSE LET emulator == emulatorData[id]
             kills == emulator.process # Null /\ emulator.running
             simKill == kills /\ emulator.process = "sim"
             killed == IF simKill THEN onClose(emulator, 0, stream[id].written) ELSE emulator
         IN  /\ emulatorData' = [emulatorData EXCEPT ![id] =
                    killed]
             /\ stream' = [stream EXCEPT ![id] =
                    IF simKill THEN Appended(@, 1, FALSE) ELSE @]
             /\ proc' = [proc EXCEPT ![id] =
                    IF simKill THEN "exited"
                    ELSE IF kills /\ @ = "alive" THEN "killed" ELSE @]
             /\ usedVncDisplays' =
                    IF releases
                    THEN releaseVncDisplay(usedVncDisplays, emulator.vncDisplay)
                    ELSE usedVncDisplays
             /\ removalTimer' = [removalTimer EXCEPT ![id] = Min(@ + 1, cap)]
             /\ response' = Respond("stop", 200, 0, <<>>, FALSE, {})
             /\ UNCHANGED <<nextVncDisplay, server, emulators, nextId, awaiting, procErrored,
                            vncInfoTimer, simFired, dataEvents, opLog, links>>

\* Mutant: the stop handler kills whatever the running flag says.
Stop_force(id, releases, cap) ==
    IF id \notin emulators
    THEN /\ response' = Respond("stop", 404, 0, <<>>, FALSE, {})
         /\ UNCHANGED <<usedVncDisplays, nextVncDisplay, server, emulators, emulatorData,
                        nextId, awaiting, proc, procErrored, removalTimer,
                        vncInfoTimer, simFired, stream, dataEvents, opLog, links>>
    ELSE LET emulator == emulatorData[id]
             kills == emulator.process # Null
             simKill == kills /\ emulator.process = "sim"
             killed == IF simKill THEN onClose(emulator, 0, stream[id].written) ELSE emulator
         IN  /\ emulatorData' = [emulatorData EXCEPT ![id] =
                    IF kills THEN [killed EXCEPT !.running = FALSE] ELSE killed]
             /\ stream' = [stream EXCEPT ![id] =
                    IF simKill THEN Appended(@, 1, FALSE) ELSE @]
             /\ proc' = [proc EXCEPT ![id] =
                    IF simKill THEN "exited"
                    ELSE IF kills /\ @ = "alive" THEN "killed" ELSE @]
             /\ usedVncDisplays' =
                    IF releases
                    THEN releaseVncDisplay(usedVncDisplays, emulator.vncDisplay)
                    ELSE usedVncDisplays
             /\ removalTimer' = [removalTimer EXCEPT ![id] = Min(@ + 1, cap)]
             /\ response' = Respond("stop", 200, 0, <<>>, FALSE, {})
             /\ UNCHANGED <<nextVncDisplay, server, emulators, nextId, awaiting, procErrored,
                            vncInfoTimer, simFired, dataEvents, opLog, links>>

\* POST /api/stop-emulator/:id.  kill() of the simulated process emits
\* 'close' with code 0 before it returns; kill() of a real process only
\* sends SIGTERM.  releases: as for CloseEvent.  cap: the pending removal
\* timers of an id are counted up to cap; the timers of one id fire in the
\* order they were set and all but the first find the key gone, so with
\* cap = 1 removalTimer says whether the first of them is still pending.
Stop(id, releases, cap) ==
    IF id \notin emulators
    THEN /\ response' = Respond("stop", 404, 0, <<>>, FALSE, {})
         /\ UNCHANGED <<usedVncDisplays, nextVncDisplay, server, emulators, emulatorData,
                        nextId, awaiting, proc, procErrored, removalTimer,
                        vncInfoTimer, simFired, stream, dataEvents, opLog, links>>
    ELSE LET emulator == emulatorData[id]
             kills == emulator.process # Null /\ emulator.running
             simKill == kills /\ emulator.process = "sim"
             killed == IF simKill THEN onClose(emulator, 0, stream[id].written) ELSE emulator
         IN  /\ emulatorData' = [emulatorData EXCEPT ![id] =
                    IF kills THEN [killed EXCEPT !.running = FALSE] ELSE killed]
             /\ stream' = [stream EXCEPT ![id] =
                    IF simKill THEN Appended(@, 1, FALSE) ELSE @]
             /\ proc' = [proc EXCEPT ![id] =
                    IF simKill THEN "exited"
                    ELSE IF kills /\ @ = "alive" THEN "killed" ELSE @]
             /\ usedVncDisplays' =
                    IF releases
                    THEN releaseVncDisplay(usedVncDisplays, emulator.vncDisplay)
                    ELSE usedVncDisplays
             /\ removalTimer' = [removalTimer EXCEPT ![id] = Min(@ + 1, cap)]
             /\ response' = Respond("stop", 200, 0, <<>>, FALSE, {})
             /\ UNCHANGED <<nextVncDisplay, server, emulators, nextId, awaiting, procErrored,
                            vncInfoTimer, simFired, dataEvents, opLog, links>>

StopEmulator(id) == Stop(id, TRUE, 1)
StopEmulatorRR(id) == Stop(id, FALSE, 1)
\* The same handler with the removal timers told apart.
StopEmulatorTimed(id) == Stop(id, TRUE, MaxTimers)

\* Mutant: the entry is deleted without waiting for a stop request.
RemovalTimer_early(id) ==
    /\ id \in emulators
    /\ emulators' = emulators \ {id}
    /\ UNCHANGED <<usedVncDisplays, nextVncDisplay, server, emulatorData, nextId, awaiting,
                   proc, procErrored, removalTimer, vncInfoTimer, simFired, stream,
                   dataEvents, response, opLog, links>>

\* The oldest pending 5000 ms timer of the id fires.  All delays are
\* equal, so the timers of one id fire in the order of its stop requests.
RemovalTimer(id) ==
    /\ removalTimer[id] > 0
    /\ removalTimer' = [removalTimer EXCEPT ![id] = @ - 1]
    /\ emulators' = emulators \ {id}
    /\ UNCHANGED <<usedVncDisplays, nextVncDisplay, server, emulatorData, nextId, awaiting,
                   proc, procErrored, vncInfoTimer, simFired, stream, dataEvents,
                   response, opLog, links>>

\* ----------------------------------------------------------------- relay
\* A relay link is one accepted WebSocket with the TCP socket dialled for
\* it.  ws: "open", "closing" (the server called ws.close()), "errored"
\* ('error' was emitted, 'close' is to follow) or "closed" ('close' was
\* emitted).  vncSocket: "connecting", "open", "errored", "destroyed"
\* (destroy() was called, 'close' is to follow), "closed", or "failed"
\* ('error' was emitted while no listener was attached).  stored: the Map
\* vncConnections has an entry for ws.  The traffic of the link is kept
\* beside its state: received counts the 'message' events of the WebSocket
\* and written lists, by their arrival number, the ones passed to
\* vncSocket.write; chunks counts the 'data' events of the TCP socket and
\* sent lists the ones passed to ws.send.
Link(id, vncPort) ==
    [emulator |-> id, vncPort |-> vncPort, ws |-> "open",
     vncSocket |-> "connecting", stored |-> FALSE,
     received |-> 0, written |-> <<>>, chunks |-> 0, sent |-> <<>>]

vncConnections == {l \in DOMAIN links : links[l].stored}

\* An 'error' event without a listener is thrown; nothing catches it, so
\* the server process ends.
Crashed == \E l \in DOMAIN links : links[l].vncSocket = "failed"

\* Mutant: the upgrade handler does not look at the running flag.
Upgrade_anyState(id) ==
    IF id \notin emulators
    THEN /\ response' = Respond("upgrade", 404, 0, <<>>, FALSE, {})
         /\ UNCHANGED <<usedVncDisplays, nextVncDisplay, server, emulators, emulatorData,
                        nextId, awaiting, proc, procErrored, removalTimer,
                        vncInfoTimer, simFired, stream, dataEvents, opLog, links>>
    ELSE /\ Len(links) < MaxLinks
         /\ links' = Append(links, Link(id, emulatorData[id].vncPort))
         /\ response' = Respond("upgrade", 101, 0, <<>>, FALSE, {})
         /\ UNCHANGED <<usedVncDisplays, nextVncDisplay, server, emulators, emulatorData,
                        nextId, awaiting, proc, procErrored, removalTimer,
                        vncInfoTimer, simFired, stream, dataEvents, opLog>>

\* server.on('upgrade') for the path /vnc/<id>, and for an accepted
\* request the 'connection' handler, which dials the display of the
\* session and attaches the WebSocket listeners.
Upgrade(id) ==
    IF id \notin emulators \/ ~emulatorData[id].running
    THEN /\ response' = Respond("upgrade", IF id \notin emulators THEN 404 ELSE 503,
                                0, <<>>, FALSE, {})
         /\ UNCHANGED <<usedVncDisplays, nextVncDisplay, server, emulators, emulatorData,
                        nextId, awaiting, proc, procErrored, removalTimer,
                        vncInfoTimer, simFired, stream, dataEvents, opLog, links>>
    ELSE /\ Len(links) < MaxLinks
         /\ links' = Append(links, Link(id, emulatorData[id].vncPort))
         /\ response' = Respond("upgrade", 101, 0, <<>>, FALSE, {})
         /\ UNCHANGED <<usedVncDisplays, nextVncDisplay, server, emulators, emulatorData,
                        nextId, awaiting, proc, procErrored, removalTimer,
                        vncInfoTimer, simFired, stream, dataEvents, opLog>>

\* What a relay step leaves alone.
sessionVars == <<usedVncDisplays, nextVncDisplay, server, emulators, emulatorData, nextId,
                 awaiting, proc, procErrored, removalTimer, vncInfoTimer, simFired,
                 stream, dataEvents, response, opLog>>

\* The connect callback of net.connect: the pair is stored and the
\* listeners of the TCP socket are attached.
VncConnect(l) ==
    /\ l \in DOMAIN links
    /\ links[l].vncSocket = "connecting"
    /\ links' = [links EXCEPT ![l].vncSocket = "open", ![l].stored = TRUE]
    /\ UNCHANGED sessionVars

\* The dial fails: 'error' on a socket whose listeners are not attached yet.
VncConnectError(l) ==
    /\ l \in DOMAIN links
    /\ links[l].vncSocket = "connecting"
    /\ links' = [links EXCEPT ![l].vncSocket = "failed"]
    /\ UNCHANGED sessionVars

\* 'message' of the WebSocket: the listener is attached in the connection
\* handler, so a message can arrive while the dial is pending.  It is
\* written to the TCP socket if vncConnections has the pair and the socket
\* is writable, and dropped otherwise.
WsMessage(l) ==
    /\ l \in DOMAIN links
    /\ links[l].ws = "open"
    /\ links[l].received < MaxMsgs
    /\ links' = [links EXCEPT
          ![l].received = @ + 1,
          ![l].written = IF links[l].stored /\ links[l].vncSocket = "open"
                         THEN Append(@, links[l].received + 1) ELSE @]
    /\ UNCHANGED sessionVars

\* 'data' of the TCP socket: the listener is attached in the connect
\* callback.  The chunk is sent to the client if the WebSocket is OPEN and
\* dropped otherwise.
VncData(l) ==
    /\ l \in DOMAIN links
    /\ links[l].vncSocket = "open"
    /\ links[l].chunks < MaxMsgs
    /\ links' = [links EXCEPT
          ![l].chunks = @ + 1,
          ![l].sent = IF links[l].ws = "open"
                      THEN Append(@, links[l].chunks + 1) ELSE @]
    /\ UNCHANGED sessionVars

\* The body shared by the 'close' and 'error' listeners of the TCP socket.
onVncSocketEnd(link, state) ==
    [link EXCEPT !.vncSocket = state,
                 !.ws = IF link.ws = "open" THEN "closing" ELSE link.ws,
                 !.stored = FALSE]

\* 'close' of the TCP socket: the peer closed it, or it follows an error
\* or a destroy().
VncSocketClose(l) ==
    /\ l \in DOMAIN links
    /\ links[l].vncSocket \in {"open", "errored", "destroyed"}
    /\ links' = [links EXCEPT ![l] = onVncSocketEnd(@, "closed")]
    /\ UNCHANGED sessionVars

\* 'error' of the connected TCP socket.
VncSocketError(l) ==
    /\ l \in DOMAIN links
    /\ links[l].vncSocket = "open"
    /\ links' = [links EXCEPT ![l] = onVncSocketEnd(@, "errored")]
    /\ UNCHANGED sessionVars

\* The body shared by the 'close' and 'error' listeners of the WebSocket.
onWsEnd(link, state) ==
    IF link.stored
    THEN [link EXCEPT !.ws = state, !.stored = FALSE,
                      !.vncSocket = IF @ = "open" THEN "destroyed" ELSE @]
    ELSE [link EXCEPT !.ws = state]

\* 'close' of the WebSocket: the client closed it, or it follows an error
\* or the server's ws.close().
WsClose(l) ==
    /\ l \in DOMAIN links
    /\ links[l].ws \in {"open", "closing", "errored"}
    /\ links' = [links EXCEPT ![l] = onWsEnd(@, "closed")]
    /\ UNCHANGED sessionVars

\* 'error' of the WebSocket.
WsError(l) ==
    /\ l \in DOMAIN links
    /\ links[l].ws = "open"
    /\ links' = [links EXCEPT ![l] = onWsEnd(@, "errored")]
    /\ UNCHANGED sessionVars

\* ------------------------------------------- the earlier server, part_001
\* part_001 has no displays and no relay.  Its emulator object is kept with
\* the closure of the startQemuEmulator call that built it: spawned is the
\* local variable process (Null until the 'close' of the which process),
\* whichPending says that this 'close' is still to come, attachTimer that
\* the 100 ms timer is pending, and handlers that setupProcessHandlers
\* attached its listeners.
NumSimLines01 == 6

\* POST /api/start-emulator of part_001 for a valid request.  Before its
\* await startQemuEmulator only draws the id, so the handler is one step:
\* which is spawned, the session is registered with process null, the
\* 100 ms timer is set and the response is sent.
StartEmulator01(maxId) ==
    /\ nextId <= maxId
    /\ nextId' = nextId + 1
    /\ emulators' = emulators \cup {nextId}
    /\ emulatorData' = Put(emulatorData, nextId,
          [process |-> Null, outputBuffer |-> <<Tok("init", 0, 1)>>,
           lastReadPosition |-> 0, running |-> TRUE, spawned |-> Null,
           whichPending |-> TRUE, attachTimer |-> TRUE, handlers |-> FALSE])
    /\ stream' = [stream EXCEPT ![nextId] = Appended(NoStream, 1, FALSE)]
    /\ response' = Respond("create", 200, nextId, <<Tok("init", 0, 1)>>, TRUE, {})
    /\ UNCHANGED <<usedVncDisplays, nextVncDisplay, server, awaiting, proc, procErrored,
                   removalTimer, vncInfoTimer, simFired, dataEvents, opLog, links>>

\* 'close' of the which process: qemu is spawned if it was found (code 0)
\* and simulateQemu is called otherwise; setupProcessHandlers returns
\* without attaching anything if the session is no longer registered.
WhichClose01(id, code) ==
    /\ id \in DOMAIN emulatorData
    /\ emulatorData[id].whichPending
    /\ emulatorData' = [emulatorData EXCEPT
          ![id].whichPending = FALSE,
          ![id].spawned = IF code = 0 THEN "qemu" ELSE "sim",
          ![id].handlers = id \in emulators]
    /\ proc' = [proc EXCEPT ![id] = "alive"]
    /\ UNCHANGED <<usedVncDisplays, nextVncDisplay, server, emulators, nextId, awaiting,
                   procErrored, removalTimer, vncInfoTimer, simFired, stream,
                   dataEvents, response, opLog, links>>

\* The 100 ms timer: emulator.process = process, whatever the local
\* variable holds by then.
AttachTimer01(id) ==
    /\ id \in DOMAIN emulatorData
    /\ emulatorData[id].attachTimer
    /\ emulatorData' = [emulatorData EXCEPT
          ![id].attachTimer = FALSE,
          ![id].process = IF id \in emulators THEN emulatorData[id].spawned ELSE @]
    /\ UNCHANGED <<usedVncDisplays, nextVncDisplay, server, emulators, nextId, awaiting,
                   proc, procErrored, removalTimer, vncInfoTimer, simFired, stream,
                   dataEvents, response, opLog, links>>

\* One 'data' event of the simulated process of part_001.  stdout, stderr
\* and the process itself share one emitter, so the event runs the stdout
\* listener and then the stderr listener, in the order they were attached.
onSimData01(e, line, n) ==
    appendTrimmed(appendTrimmed(e, <<Tok("sim", line, n + 1)>>),
                  <<Tok("tag", line, n + 2), Tok("sim", line, n + 3)>>)

\* One of the six timers of simulateQemu of part_001 fires.
SimTimer01(id) ==
    /\ id \in DOMAIN emulatorData
    /\ emulatorData[id].spawned = "sim"
    /\ simFired[id] < NumSimLines01
    /\ simFired' = [simFired EXCEPT ![id] = @ + 1]
    /\ IF emulatorData[id].handlers
       THEN /\ emulatorData' = [emulatorData EXCEPT ![id] =
                   onSimData01(@, simFired[id] + 1, stream[id].written)]
            /\ stream' = [stream EXCEPT ![id] =
                   [@ EXCEPT !.written =
                       emulatorData'[id].outputBuffer[Len(emulatorData'[id].outputBuffer)].n]]
       ELSE UNCHANGED <<emulatorData, stream>>
    /\ UNCHANGED <<usedVncDisplays, nextVncDisplay, server, emulators, nextId, awaiting,
                   proc, procErrored, removalTimer, vncInfoTimer, dataEvents,
                   response, opLog, links>>

\* What the 'close' listener of part_001 does, if it was attached.
onClose01(e, code, n) == IF e.handlers THEN onClose(e, code, n) ELSE e

\* 'close' of a real process of part_001.
ProcClose01(id, code) ==
    /\ id \in DOMAIN emulatorData
    /\ emulatorData[id].spawned = "qemu"
    /\ proc[id] \in {"alive", "killed"}
    /\ proc' = [proc EXCEPT ![id] = "exited"]
    /\ emulatorData' = [emulatorData EXCEPT ![id] = onClose01(@, code, stream[id].written)]
    /\ stream' = [stream EXCEPT ![id] =
          IF emulatorData[id].handlers THEN Appended(@, 1, FALSE) ELSE @]
    /\ UNCHANGED <<usedVncDisplays, nextVncDisplay, server, emulators, nextId, awaiting,
                   procErrored, removalTimer, vncInfoTimer, simFired, dataEvents,
                   response, opLog, links>>

\* POST /api/stop-emulator/:id of part_001: the process is killed only
\* through emulator.process, which is null until the 100 ms timer.
Stop01(id) ==
    IF id \notin emulators
    THEN /\ response' = Respond("stop", 404, 0, <<>>, FALSE, {})
         /\ UNCHANGED <<usedVncDisplays, nextVncDisplay, server, emulators, emulatorData,
                        nextId, awaiting, proc, procErrored, removalTimer,
                        vncInfoTimer, simFired, stream, dataEvents, opLog, links>>
    ELSE LET emulator == emulatorData[id]
             kills == emulator.process # Null /\ emulator.running
             simKill == kills /\ emulator.process = "sim"
             killed == IF simKill THEN onClose01(emulator, 0, stream[id].written)
                       ELSE emulator
         IN  /\ emulatorData' = [emulatorData EXCEPT ![id] =
                    IF kills THEN [killed EXCEPT !.running = FALSE] ELSE killed]
             /\ stream' = [stream EXCEPT ![id] =
                    IF simKill /\ emulator.handlers THEN Appended(@, 1, FALSE) ELSE @]
             /\ proc' = [proc EXCEPT ![id] =
                    IF simKill THEN "exited"
                    ELSE IF kills /\ @ = "alive" THEN "killed" ELSE @]
             /\ removalTimer' = [removalTimer EXCEPT ![id] = Min(@ + 1, 1)]
             /\ response' = Respond("stop", 200, 0, <<>>, FALSE, {})
             /\ UNCHANGED <<usedVncDisplays, nextVncDisplay, server, emulators, nextId,
                            awaiting, procErrored, vncInfoTimer, simFired,
                            dataEvents, opLog, links>>

\* -------------------------------------------------------------- shutdown
\* What the SIGINT handler does to one link: the pairs of vncConnections
\* get vncSocket.destroy() and ws.close(), and the Map is cleared; a link
\* without an entry is not visited.
onSigintLink(link) ==
    IF link.stored
    THEN [link EXCEPT !.vncSocket = IF @ = "open" THEN "destroyed" ELSE @,
                      !.ws = IF @ = "open" THEN "closing" ELSE @,
                      !.stored = FALSE]
    ELSE link

\* The sessions the SIGINT handler calls kill('SIGTERM') on.
sigintKills == {id \in emulators : emulatorData[id].process # Null /\ emulatorData[id].running}

\* Mutant: the handler ends the server without signalling the processes.
Sigint_noKill ==
    /\ server = "up"
    /\ server' = "exited"
    /\ links' = [l \in DOMAIN links |-> onSigintLink(links[l])]
    /\ UNCHANGED <<usedVncDisplays, nextVncDisplay, emulators, emulatorData, nextId,
                   awaiting, proc, procErrored, removalTimer, vncInfoTimer,
                   simFired, stream, dataEvents, response, opLog>>

\* process.on('SIGINT'): the links of the table are torn down, the running
\* sessions with a process are killed and the server exits.  kill() of a
\* simulated process runs its close listener before it returns; the
\* handler itself does not touch the running flag.
Sigint ==
    /\ server = "up"
    /\ server' = "exited"
    /\ links' = [l \in DOMAIN links |-> onSigintLink(links[l])]
    /\ LET simKills == {id \in sigintKills : emulatorData[id].process = "sim"}
       IN  /\ emulatorData' = [id \in DOMAIN emulatorData |->
                  IF id \in simKills
                  THEN onClose(emulatorData[id], 0, stream[id].written)
                  ELSE emulatorData[id]]
           /\ stream' = [id \in Ids |->
                  IF id \in simKills THEN Appended(stream[id], 1, FALSE) ELSE stream[id]]
           /\ proc' = [id \in Ids |->
                  IF id \in simKills THEN "exited"
                  ELSE IF id \in sigintKills /\ proc[id] = "alive" THEN "killed"
                  ELSE proc[id]]
           /\ usedVncDisplays' =
                  usedVncDisplays \ {emulatorData[id].vncDisplay : id \in simKills}
    /\ UNCHANGED <<nextVncDisplay, emulators, nextId, awaiting, procErrored,
                   removalTimer, vncInfoTimer, simFired, dataEvents, response, opLog>>

\* -------------------------------------------------------- specifications
\* SpecPool: the requests and process events of up to MaxSessions sessions
\* that decide who holds which display.  Process output, the VNC-info
\* timer and polling are left to Spec: they touch only outputBuffer and
\* lastReadPosition, which no handler of SpecPool reads.
NextPool ==
    \/ StartEmulator(MaxSessions)
    \/ \E id \in Ids, imagePath \in BOOLEAN, qemuPath \in BOOLEAN, spawnThrows \in BOOLEAN :
          ResumeEmulator(id, imagePath, qemuPath, spawnThrows)
    \/ \E id \in Ids : ProcClose(id, 0)
    \/ \E id \in Ids : ProcError(id)
    \/ \E id \in Ids : StopEmulator(id)
    \/ \E id \in Ids : RemovalTimer(id)

SpecPool == Init /\ [][NextPool]_vars

\* SpecPoolLive: SpecPool where a timer that is set fires.  Requests and
\* process events are left to the clients and the processes.
SpecPoolLive == SpecPool /\ WF_vars(\E id \in Ids : RemovalTimer(id))

\* SpecWide: SpecPool with one more session.
NextWide ==
    \/ StartEmulator(WideSessions)
    \/ \E id \in Ids, imagePath \in BOOLEAN, qemuPath \in BOOLEAN, spawnThrows \in BOOLEAN :
          ResumeEmulator(id, imagePath, qemuPath, spawnThrows)
    \/ \E id \in Ids : ProcClose(id, 0)
    \/ \E id \in Ids : ProcError(id)
    \/ \E id \in Ids : StopEmulator(id)
    \/ \E id \in Ids : RemovalTimer(id)

SpecWide == Init /\ [][NextWide]_vars

\* SpecRR: the same for the round-robin server, src/server.js.
NextRR ==
    \/ StartEmulatorRR
    \/ \E id \in Ids, imagePath \in BOOLEAN, qemuPath \in BOOLEAN, spawnThrows \in BOOLEAN :
          ResumeEmulator(id, imagePath, qemuPath, spawnThrows)
    \/ \E id \in Ids : ProcCloseRR(id, 0)
    \/ \E id \in Ids : ProcErrorRR(id)
    \/ \E id \in Ids : StopEmulatorRR(id)
    \/ \E id \in Ids : RemovalTimer(id)

SpecRR == Init /\ [][NextRR]_vars

\* SpecAlloc: the allocator alone.  Any set of displays may be in use at
\* the start; each step is one call of getAvailableVncDisplay or of
\* releaseVncDisplay (with any argument, in range or not), logged with the
\* used set before and after it.
InitAlloc ==
    /\ usedVncDisplays \in SUBSET (0..(NumDisplays - 1))
    /\ nextVncDisplay = 0
    /\ server = "up"
    /\ emulators = {}
    /\ emulatorData = [i \in {} |-> Null]
    /\ nextId = 1
    /\ awaiting = [i \in {} |-> 0]
    /\ proc = [i \in Ids |-> "none"]
    /\ procErrored = [i \in Ids |-> FALSE]
    /\ removalTimer = [i \in Ids |-> 0]
    /\ vncInfoTimer = [i \in Ids |-> FALSE]
    /\ simFired = [i \in Ids |-> 0]
    /\ stream = [i \in Ids |-> NoStream]
    /\ dataEvents = 0
    /\ response = NoResponse
    /\ opLog = <<>>
    /\ links = <<>>

Logged(op, arg, result) ==
    [op |-> op, arg |-> arg, result |-> result,
     before |-> usedVncDisplays, after |-> usedVncDisplays']

Acquire ==
    /\ Len(opLog) < MaxOps
    /\ usedVncDisplays' = usedAfterAcquire(usedVncDisplays)
    /\ opLog' = Append(opLog, Logged("acquire", 0, getAvailableVncDisplay(usedVncDisplays)))
    /\ UNCHANGED <<nextVncDisplay, server, emulators, emulatorData, nextId, awaiting, proc,
                   procErrored, removalTimer, vncInfoTimer, simFired, stream,
                   dataEvents, response, links>>

Release(display) ==
    /\ Len(opLog) < MaxOps
    /\ usedVncDisplays' = releaseVncDisplay(usedVncDisplays, display)
    /\ opLog' = Append(opLog, Logged("release", display, 0))
    /\ UNCHANGED <<nextVncDisplay, server, emulators, emulatorData, nextId, awaiting, proc,
                   procErrored, removalTimer, vncInfoTimer, simFired, stream,
                   dataEvents, response, links>>

NextAlloc ==
    \/ Acquire
    \/ \E display \in -1..NumDisplays : Release(display)

SpecAlloc == InitAlloc /\ [][NextAlloc]_vars

\* SpecRelay: one session with its relay links, the polling client and the
\* removal timers of repeated stop requests told apart.  Nothing runs
\* once the server process has ended.
Links == 1..MaxLinks

NextRelay ==
    \/ ~Crashed /\ StartEmulator(1)
    \/ \E id \in Ids, imagePath \in BOOLEAN, qemuPath \in BOOLEAN, spawnThrows \in BOOLEAN :
          ~Crashed /\ ResumeEmulator(id, imagePath, qemuPath, spawnThrows)
    \/ \E id \in Ids :
          ~Crashed /\ ProcClose(id, 0)
    \/ \E id \in Ids :
          ~Crashed /\ ProcError(id)
    \/ \E id \in Ids :
          ~Crashed /\ EmulatorStatus(id)
    \/ \E id \in Ids :
          ~Crashed /\ StopEmulatorTimed(id)
    \/ \E id \in Ids :
          ~Crashed /\ RemovalTimer(id)
    \/ \E id \in Ids :
          ~Crashed /\ Upgrade(id)
    \/ \E l \in Links :
          ~Crashed /\ VncConnect(l)
    \/ \E l \in Links :
          ~Crashed /\ VncConnectError(l)
    \/ \E l \in Links :
          ~Crashed /\ VncSocketClose(l)
    \/ \E l \in Links :
          ~Crashed /\ VncSocketError(l)
    \/ \E l \in Links :
          ~Crashed /\ WsClose(l)
    \/ \E l \in Links :
          ~Crashed /\ WsError(l)

SpecRelay == Init /\ [][NextRelay]_vars

\* What the event loop owes a link: a dial ends, by the connect callback or
\* by an error, and the 'close' event arrives that follows an error, a
\* ws.close() or a destroy().  That a peer closes an open end is up to the
\* peer.
RelayProgress(l) ==
    /\ ~Crashed
    /\ l \in DOMAIN links
    /\ \/ VncConnect(l)
       \/ VncConnectError(l)
       \/ links[l].ws # "open" /\ WsClose(l)
       \/ links[l].vncSocket # "open" /\ VncSocketClose(l)

SpecRelayLive == SpecRelay /\ WF_vars(\E l \in Links : RelayProgress(l))

\* SpecForward: SpecRelay with the traffic of the links and without the
\* polling client and the removal timers.
NextForward ==
    \/ ~Crashed /\ StartEmulator(1)
    \/ \E id \in Ids, imagePath \in BOOLEAN, qemuPath \in BOOLEAN, spawnThrows \in BOOLEAN :
          ~Crashed /\ ResumeEmulator(id, imagePath, qemuPath, spawnThrows)
    \/ \E id \in Ids :
          ~Crashed /\ ProcClose(id, 0)
    \/ \E id \in Ids :
          ~Crashed /\ StopEmulator(id)
    \/ \E id \in Ids :
          ~Crashed /\ Upgrade(id)
    \/ \E l \in Links :
          ~Crashed /\ VncConnect(l)
    \/ \E l \in Links :
          ~Crashed /\ VncConnectError(l)
    \/ \E l \in Links :
          ~Crashed /\ WsMessage(l)
    \/ \E l \in Links :
          ~Crashed /\ VncData(l)
    \/ \E l \in Links :
          ~Crashed /\ VncSocketClose(l)
    \/ \E l \in Links :
          ~Crashed /\ VncSocketError(l)
    \/ \E l \in Links :
          ~Crashed /\ WsClose(l)
    \/ \E l \in Links :
          ~Crashed /\ WsError(l)

SpecForward == Init /\ [][NextForward]_vars

\* SpecReuse: SpecPool with the relay links of its sessions.
NextReuse ==
    \/ ~Crashed /\ StartEmulator(MaxSessions)
    \/ \E id \in Ids, imagePath \in BOOLEAN, qemuPath \in BOOLEAN, spawnThrows \in BOOLEAN :
          ~Crashed /\ ResumeEmulator(id, imagePath, qemuPath, spawnThrows)
    \/ \E id \in Ids :
          ~Crashed /\ ProcClose(id, 0)
    \/ \E id \in Ids :
          ~Crashed /\ ProcError(id)
    \/ \E id \in Ids :
          ~Crashed /\ StopEmulator(id)
    \/ \E id \in Ids :
          ~Crashed /\ RemovalTimer(id)
    \/ \E id \in Ids :
          ~Crashed /\ Upgrade(id)
    \/ \E l \in Links :
          ~Crashed /\ VncConnect(l)
    \/ \E l \in Links :
          ~Crashed /\ VncConnectError(l)
    \/ \E l \in Links :
          ~Crashed /\ VncSocketClose(l)
    \/ \E l \in Links :
          ~Crashed /\ VncSocketError(l)
    \/ \E l \in Links :
          ~Crashed /\ WsClose(l)
    \/ \E l \in Links :
          ~Crashed /\ WsError(l)

SpecReuse == Init /\ [][NextReuse]_vars

\* SpecSim: one session with the simulated producer, the polling client
\* and the stop request.  SpecSimLive: the timers set by simulateQemu
\* fire; they are plain setTimeout calls that nothing cancels.
NextSim ==
    \/ StartEmulator(1)
    \/ \E id \in Ids, imagePath \in BOOLEAN, qemuPath \in BOOLEAN, spawnThrows \in BOOLEAN :
          ResumeEmulator(id, imagePath, qemuPath, spawnThrows)
    \/ \E id \in Ids : ProcClose(id, 0)
    \/ \E id \in Ids : SimTimer(id)
    \/ \E id \in Ids : EmulatorStatus(id)
    \/ \E id \in Ids : StopEmulator(id)
    \/ \E id \in Ids : RemovalTimer(id)

SpecSim == Init /\ [][NextSim]_vars

SpecSimLive == SpecSim /\ \A id \in Ids : WF_vars(SimTimer(id))

\* SpecStreams: the output of the processes of up to MaxSessions sessions.
NextStreams ==
    \/ StartEmulator(MaxSessions)
    \/ \E id \in Ids, imagePath \in BOOLEAN, qemuPath \in BOOLEAN, spawnThrows \in BOOLEAN :
          ResumeEmulator(id, imagePath, qemuPath, spawnThrows)
    \/ \E id \in Ids : ProcClose(id, 0)
    \/ \E id \in Ids, len \in ChunkLens : StdoutData(id, len)
    \/ \E id \in Ids, len \in ChunkLens : StderrData(id, len)

SpecStreams == Init /\ [][NextStreams]_vars

\* SpecList: the requests of SpecPool with the polling and the listing
\* client.  The exit of a process is left to SpecPool: a session stops
\* here by a stop request or by a launch that throws.
NextList ==
    \/ StartEmulator(MaxSessions)
    \/ \E id \in Ids, imagePath \in BOOLEAN, qemuPath \in BOOLEAN, spawnThrows \in BOOLEAN :
          ResumeEmulator(id, imagePath, qemuPath, spawnThrows)
    \/ \E id \in Ids : EmulatorStatus(id)
    \/ ListEmulators
    \/ \E id \in Ids : StopEmulator(id)
    \/ \E id \in Ids : RemovalTimer(id)

SpecList == Init /\ [][NextList]_vars

\* SpecCreate: SpecPool with the request bodies of the creates.  Browsers:
\* a configured name, no name, a name that is nothing in JavaScript and
\* one that names a property every object inherits.
Browsers == {"midori", Missing, "netscape", "constructor"}
Fields == {Missing, "2"}

NextCreate ==
    \/ \E browser \in Browsers, ram \in Fields, vram \in Fields :
          PostStartEmulator(browser, ram, vram, MaxSessions)
    \/ \E id \in Ids, imagePath \in BOOLEAN, qemuPath \in BOOLEAN, spawnThrows \in BOOLEAN :
          ResumeEmulator(id, imagePath, qemuPath, spawnThrows)
    \/ \E id \in Ids : ProcClose(id, 0)
    \/ \E id \in Ids : ProcError(id)
    \/ \E id \in Ids : StopEmulator(id)
    \/ \E id \in Ids : RemovalTimer(id)

SpecCreate == Init /\ [][NextCreate]_vars

\* SpecShutdown: sessions with their relay links, and the SIGINT that ends
\* the server.  Nothing runs once the server process has ended.  Stop
\* requests are left to the other specifications: a session stops here
\* by the exit of its process or by a launch that throws.
ServerUp == server = "up" /\ ~Crashed

NextShutdown ==
    \/ ServerUp /\ StartEmulator(MaxSessions)
    \/ \E id \in Ids, imagePath \in BOOLEAN, qemuPath \in BOOLEAN, spawnThrows \in BOOLEAN :
          ServerUp /\ ResumeEmulator(id, imagePath, qemuPath, spawnThrows)
    \/ \E id \in Ids :
          ServerUp /\ ProcClose(id, 0)
    \/ \E id \in Ids :
          ServerUp /\ Upgrade(id)
    \/ \E l \in Links :
          ServerUp /\ VncConnect(l)
    \/ \E l \in Links :
          ServerUp /\ VncConnectError(l)
    \/ \E l \in Links :
          ServerUp /\ VncSocketClose(l)
    \/ \E l \in Links :
          ServerUp /\ WsClose(l)
    \/ ServerUp /\ Sigint

SpecShutdown == Init /\ [][NextShutdown]_vars

\* Spec01: the sessions of the earlier server, part_001.
WhichCodes == {0, 1}

Next01 ==
    \/ StartEmulator01(MaxSessions)
    \/ \E id \in Ids, code \in WhichCodes : WhichClose01(id, code)
    \/ \E id \in Ids : AttachTimer01(id)
    \/ \E id \in Ids : SimTimer01(id)
    \/ \E id \in Ids : ProcClose01(id, 0)
    \/ \E id \in Ids : Stop01(id)
    \/ \E id \in Ids : RemovalTimer(id)

Spec01 == Init /\ [][Next01]_vars

\* Spec: the whole life of one session, with its process output, the
\* simulated producer and the polling client.
Next ==
    \/ StartEmulator(1)
    \/ \E id \in Ids, imagePath \in BOOLEAN, qemuPath \in BOOLEAN, spawnThrows \in BOOLEAN :
          ResumeEmulator(id, imagePath, qemuPath, spawnThrows)
    \/ \E id \in Ids, code \in ExitCodes : ProcClose(id, code)
    \/ \E id \in Ids : ProcError(id)
    \/ \E id \in Ids : VncInfoTimer(id)
    \/ \E id \in Ids, len \in ChunkLens : StdoutData(id, len)
    \/ \E id \in Ids, len \in ChunkLens : StderrData(id, len)
    \/ \E id \in Ids : SimTimer(id)
    \/ \E id \in Ids : EmulatorStatus(id)
    \/ ListEmulators
    \/ \E id \in Ids : StopEmulator(id)
    \/ \E id \in Ids : RemovalTimer(id)

Spec == Init /\ [][Next]_vars

\* ---------------------------------------------------------------- claims
\* C1 (SpecWide): no two sessions that are marked running at the same time
\* hold the same display number.
C1_RunningDisplaysUnique ==
    \A a \in Running, b \in Running :
        a # b => emulatorData[a].vncDisplay # emulatorData[b].vncDisplay

\* C2 (SpecRR): under the round-robin allocator of src/server.js, too, the
\* display numbers of the sessions marked running are pairwise different.
C2_RoundRobinDisplaysUnique ==
    Cardinality({emulatorData[id].vncDisplay : id \in Running}) = Cardinality(Running)

\* The acquire calls logged so far.
Acquires == {i \in 1..Len(opLog) : opLog[i].op = "acquire"}
Releases == {i \in 1..Len(opLog) : opLog[i].op = "release"}
Pool == 0..(NumDisplays - 1)

\* C3 (SpecAlloc): an acquire returns the lowest display of the pool that
\* is not in use and adds exactly that display to the used set; when the
\* whole pool is in use it fails and leaves the used set as it was.
C3_AcquireLowestFree ==
    \A i \in Acquires :
        LET call == opLog[i]
        IN  IF Pool \subseteq call.before
            THEN call.result = Exhausted /\ call.after = call.before
            ELSE /\ call.result \in Pool \ call.before
                 /\ \A d \in Pool : d < call.result => d \in call.before
                 /\ call.after = call.before \cup {call.result}

\* C3 witness: one behaviour has both an acquire that skipped a used
\* display and an acquire that found the pool exhausted.
C3_Witness ==
    /\ \E i \in Acquires : opLog[i].result > 0
    /\ \E i \in Acquires : opLog[i].result = Exhausted

\* C4 (SpecWide): creates that are suspended at the same time hold pairwise
\* different displays, and while as many creates as there are displays
\* hold theirs, a further create finds the pool exhausted.
C4_OverlappingCreatesDistinct ==
    /\ \A a \in DOMAIN awaiting, b \in DOMAIN awaiting :
           a # b => awaiting[a] # awaiting[b]
    /\ Cardinality(DOMAIN awaiting) = NumDisplays
           => getAvailableVncDisplay(usedVncDisplays) = Exhausted

C6_ExhaustedCreateFails ==
    [][(Pool \subseteq usedVncDisplays /\ StartEmulator(MaxSessions))
          => /\ response'.op = "create" /\ response'.status = 500
             /\ UNCHANGED <<usedVncDisplays, awaiting, emulators, emulatorData,
                            nextId, proc, vncInfoTimer, simFired, stream>>]_vars

\* C6 witness: a create was refused while every display was in use.
C6_Witness ==
    /\ response.op = "create" /\ response.status = 500
    /\ Pool \subseteq usedVncDisplays

\* C7 (Spec): a session whose running flag is false keeps it false, and an
\* id that has left the registry never enters it again.
C7_StoppedStaysStopped ==
    [][/\ \A id \in DOMAIN emulatorData :
             ~emulatorData[id].running => ~emulatorData'[id].running
       /\ \A id \in DOMAIN emulatorData :
             id \notin emulators => id \notin emulators']_vars

\* C7 witness: a session that stopped after its process reported both an
\* error and its exit, and that has been removed.
C7_Witness ==
    \E id \in DOMAIN emulatorData :
        /\ id \notin emulators
        /\ ~emulatorData[id].running
        /\ procErrored[id] /\ proc[id] = "exited"

\* C8 (Spec): the read cursor of every session lies within its buffer.
C8_CursorInBuffer ==
    \A id \in DOMAIN emulatorData :
        /\ 0 <= emulatorData[id].lastReadPosition
        /\ emulatorData[id].lastReadPosition <= Len(emulatorData[id].outputBuffer)

\* C8 witness: the buffer grew past the cap by untrimmed appends, was read
\* to its end, and a later append trimmed it and moved the cursor back.
C8_Witness ==
    \E id \in DOMAIN emulatorData :
        /\ stream[id].trimmed
        /\ stream[id].readAt > MAX_BUFFER_SIZE
        /\ emulatorData[id].lastReadPosition > 0
        /\ emulatorData[id].lastReadPosition < Len(emulatorData[id].outputBuffer)

\* C9 (Spec): the buffer never holds more than MAX_BUFFER_SIZE characters,
\* and once that many have been appended it holds exactly the last
\* MAX_BUFFER_SIZE of them.
C9_BufferCapped ==
    \A id \in DOMAIN emulatorData :
        LET buf == emulatorData[id].outputBuffer
            total == stream[id].written
        IN  /\ Len(buf) <= MAX_BUFFER_SIZE
            /\ total >= MAX_BUFFER_SIZE
                  => /\ Len(buf) = MAX_BUFFER_SIZE
                     /\ \A i \in 1..Len(buf) : buf[i].n = total - MAX_BUFFER_SIZE + i

\* C10 (Spec): a status query of a registered session returns the buffer
\* from the cursor to the end and moves the cursor to the end; it returns
\* nothing when nothing was appended since the previous query, and exactly
\* the appended text when one append without trimming happened since.
C10_DestructiveRead ==
    [][\A id \in emulators : EmulatorStatus(id) =>
          LET e == emulatorData[id]
              h == stream[id]
              out == response'.output
          IN  /\ Len(out) = Len(e.outputBuffer) - e.lastReadPosition
              /\ \A i \in 1..Len(out) : out[i] = e.outputBuffer[e.lastReadPosition + i]
              /\ emulatorData'[id].lastReadPosition = Len(e.outputBuffer)
              /\ h.appends = 0 => out = <<>>
              /\ (h.appends = 1 /\ ~h.trimmed)
                    => /\ Len(out) = h.written - h.readAt
                       /\ \A i \in 1..Len(out) : out[i].n = h.readAt + i]_vars

\* C10 witness: a status query answered with no output although the
\* process had written: a query just before it had consumed the text.
C10_Witness ==
    /\ response.op = "status" /\ response.status = 200
    /\ response.output = <<>>
    /\ \E id \in emulators : stream[id].readAt > MAX_BUFFER_SIZE

\* C11 (Spec): the buffer is always the tail of the stream, in stream
\* order, and a status query returns exactly those of its characters that
\* lie after everything the earlier queries returned.  So the texts of
\* successive queries repeat no character and keep the order of the
\* stream, and a character is skipped only when it was cut from the front
\* of the buffer before a query reached it.
C11_NoDuplicateNoGap ==
    [][\A id \in emulators : EmulatorStatus(id) =>
          LET buf == emulatorData[id].outputBuffer
              h == stream[id]
              Unread(t) == t.n > h.readAt
          IN  /\ \A i \in 1..Len(buf) : buf[i].n = h.written - Len(buf) + i
              /\ response'.output = SelectSeq(buf, Unread)]_vars

\* C11 witness: a query has just returned part of a full buffer whose
\* front was cut after the query before it: the cursor was moved back by
\* the overflow and the query continued where the earlier one ended.
C11_Witness ==
    \E id \in emulators :
        /\ response.op = "status" /\ response.status = 200
        /\ stream[id].appends = 0
        /\ emulatorData[id].lastReadPosition = Len(emulatorData[id].outputBuffer)
        /\ Len(emulatorData[id].outputBuffer) = MAX_BUFFER_SIZE
        /\ emulatorData[id].outputBuffer[1].n > 1
        /\ Len(response.output) > 0
        /\ Len(response.output) < MAX_BUFFER_SIZE
        /\ response.output[Len(response.output)].n = stream[id].written

\* What a process exit leaves behind: the flag cleared, the line appended
\* to the buffer as it was, the display free and within reach of the next
\* acquire.
ExitRecorded(id, line) ==
    /\ ~emulatorData'[id].running
    /\ emulatorData'[id].outputBuffer = Append(emulatorData[id].outputBuffer, line)
    /\ emulatorData[id].vncDisplay \notin usedVncDisplays'
    /\ getAvailableVncDisplay(usedVncDisplays') \in 0..emulatorData[id].vncDisplay

\* C12 (Spec): when the process of a session exits, by a 'close' event
\* with any exit code (the simulated process emits it from kill()) or by
\* an 'error' event, the running flag becomes false, a line with the exit
\* code or the error is appended to the buffer, and the display of the
\* session is free, so that an acquire can return it.
C12_ExitStopsAndReleases ==
    [][\A id \in DOMAIN emulatorData :
          LET n == stream[id].written + 1
          IN  /\ \A code \in ExitCodes :
                     ProcClose(id, code) => ExitRecorded(id, Tok("stopped", code, n))
              /\ ProcError(id) => ExitRecorded(id, Tok("error", 0, n))
              /\ ( /\ StopEmulator(id)
                   /\ id \in emulators
                   /\ emulatorData[id].process = "sim"
                   /\ emulatorData[id].running )
                     => ExitRecorded(id, Tok("stopped", 0, n))]_vars

\* C12 witness: a process that reported an error and then exited with
\* code 1; both lines are in the buffer and the display is free.
C12_Witness ==
    \E id \in DOMAIN emulatorData :
        LET buf == emulatorData[id].outputBuffer
        IN  /\ procErrored[id] /\ proc[id] = "exited"
            /\ ~emulatorData[id].running
            /\ buf[Len(buf)].k = "stopped" /\ buf[Len(buf)].v = 1
            /\ \E i \in 1..Len(buf) : buf[i].k = "error"
            /\ emulatorData[id].vncDisplay \notin usedVncDisplays

\* C13 (SpecRelay): a stop request on a registered session leaves it
\* registered with the running flag false; as long as the 5 s timer set by
\* a stop request has not fired, a status query of the session answers 200
\* with running = false; and once the session is removed the query
\* answers 404.
C13_GracePeriod ==
    [][\A id \in DOMAIN emulatorData :
          /\ (id \in emulators /\ StopEmulatorTimed(id))
                 => (id \in emulators' /\ ~emulatorData'[id].running)
          /\ (removalTimer[id] > 0 /\ EmulatorStatus(id))
                 => (response'.status = 200 /\ ~response'.running)
          /\ (id \notin emulators /\ EmulatorStatus(id))
                 => response'.status = 404]_vars

\* C14 (SpecPoolLive): a session of the registry whose running flag is
\* false is eventually removed from the registry, whether it stopped by a
\* stop request, by the exit or an error of its process, or by a failed
\* launch.
C14_StoppedEventuallyRemoved ==
    \A id \in Ids :
        [](id \in emulators /\ ~emulatorData[id].running => <>(id \notin emulators))

\* The state of the session with the given id in the state machine of the
\* registry: "None" before its create, "Starting" while the create is
\* suspended, "Running" and "Stopped" while it is registered, "Removed"
\* after.
Phase(id, waiting, registered, data) ==
    IF id \in DOMAIN waiting THEN "Starting"
    ELSE IF id \in registered
         THEN IF data[id].running THEN "Running" ELSE "Stopped"
    ELSE IF id \in DOMAIN data THEN "Removed"
    ELSE "None"

\* C15 (SpecPool): each session moves None -> Starting -> Running ->
\* Stopped -> Removed one state at a time, except that it goes from
\* Starting to Stopped directly when, and only when, no process was
\* launched for it.  A Running session has a process (real or
\* simulated), and a Removed session has its running flag false.
C15_StateMachine ==
    [][\A id \in Ids :
          LET from == Phase(id, awaiting, emulators, emulatorData)
              to == Phase(id, awaiting', emulators', emulatorData')
          IN  /\ \/ from = to
                 \/ from = "None" /\ to = "Starting"
                 \/ from = "Starting" /\ to = "Running"
                 \/ from = "Starting" /\ to = "Stopped"
                                     /\ emulatorData'[id].process = Null
                 \/ from = "Running" /\ to = "Stopped"
                 \/ from = "Stopped" /\ to = "Removed"
              /\ to = "Running" => emulatorData'[id].process # Null
              /\ to = "Removed" => ~emulatorData'[id].running]_vars

\* C15 witness: one session has failed to launch and another has run, and
\* both have been removed.
C15_Witness ==
    \E a \in DOMAIN emulatorData, b \in DOMAIN emulatorData :
        /\ a \notin emulators /\ emulatorData[a].process = Null
        /\ b \notin emulators /\ proc[b] = "exited"

\* C16 (SpecPool), as stated: a stop request that sends SIGTERM to the
\* live process of a running session leaves the running flag true; the
\* flag is cleared by the 'close' event of the process, not by the request.
C16_FlagClearedByExit ==
    [][\A id \in emulators :
          ( /\ StopEmulator(id)
            /\ emulatorData[id].running
            /\ proc[id] = "alive"
            /\ proc'[id] # "exited" )
              => emulatorData'[id].running]_vars

\* C16 (SpecPool), amended: a stop request that sends the terminate signal
\* to the process of a running session clears the running flag in the same
\* handler; a real process is then still to exit, and its 'close' event
\* finds the flag false and leaves it so.
C16_FlagClearedByStop ==
    [][\A id \in emulators :
          /\ ( /\ StopEmulator(id)
               /\ emulatorData[id].running
               /\ emulatorData[id].process # Null )
                 => /\ ~emulatorData'[id].running
                    /\ emulatorData[id].process = "qemu" /\ proc[id] = "alive"
                          => /\ proc'[id] = "killed"
                             /\ emulatorData'[id].outputBuffer = emulatorData[id].outputBuffer
          /\ \A code \in ExitCodes :
                 (ProcClose(id, code) /\ proc[id] = "killed" /\ ~procErrored[id])
                     => (~emulatorData[id].running /\ ~emulatorData'[id].running)]_vars

\* C16 witness: SIGTERM was sent to a real process that has not exited
\* yet, and the flag of its session is already false.
C16_Witness ==
    \E id \in emulators :
        /\ response.op = "stop" /\ response.status = 200
        /\ proc[id] = "killed" /\ ~procErrored[id]
        /\ ~emulatorData[id].running

\* C17 (SpecPool): a stop request for a registered session that has no
\* process (its launch failed) or whose process has exited sends no
\* signal, leaves every session's flag, buffer and cursor as they were,
\* and is answered with success.
C17_StopWithoutProcess ==
    [][\A id \in emulators :
          ( /\ StopEmulator(id)
            /\ emulatorData[id].process = Null \/ proc[id] = "exited" )
              => /\ proc' = proc
                 /\ emulatorData' = emulatorData
                 /\ stream' = stream
                 /\ response'.op = "stop" /\ response'.status = 200]_vars

\* C17 witness: a stop request was answered for a session whose launch
\* had failed, and a stopped session with an exited real process is
\* registered beside it.
C17_Witness ==
    /\ response.op = "stop" /\ response.status = 200
    /\ \E id \in emulators :
           emulatorData[id].process = Null /\ removalTimer[id] > 0
    /\ \E id \in emulators :
           /\ proc[id] = "exited" /\ removalTimer[id] > 0
           /\ emulatorData[id].process = "qemu"

\* C18 (SpecRelay): a status query, a stop request or a relay upgrade
\* for an id that is not in the registry, because it was never created or
\* was removed, is answered 404 and changes nothing: the sessions, the
\* used displays, the pending timers and the relay links stay as they were.
C18_UnknownIdNotFound ==
    [][\A id \in Ids \ emulators :
          (EmulatorStatus(id) \/ StopEmulatorTimed(id) \/ Upgrade(id))
              => /\ response'.status = 404
                 /\ UNCHANGED <<usedVncDisplays, emulators, emulatorData, awaiting,
                                proc, procErrored, removalTimer, vncInfoTimer,
                                simFired, stream, links>>]_vars

\* C18 witness: a request was answered 404 in a behaviour in which the
\* session has been removed and a relay link is still in the table.
C18_Witness ==
    /\ response.op \in {"status", "stop", "upgrade"} /\ response.status = 404
    /\ \E id \in DOMAIN emulatorData : id \notin emulators
    /\ vncConnections # {}

\* C19 (SpecRelay): a relay upgrade for an id that is not registered is
\* answered 404, one for a registered session whose running flag is false
\* is answered 503, and neither dials or creates a link; a link is created
\* and dialled only by an upgrade for a session that is registered and
\* running at that moment, and it dials the port of that session.
C19_RelayOnlyWhenRunning ==
    [][/\ \A id \in Ids : Upgrade(id) =>
             IF id \notin emulators
             THEN response'.status = 404 /\ links' = links
             ELSE IF ~emulatorData[id].running
                  THEN response'.status = 503 /\ links' = links
                  ELSE /\ response'.status = 101
                       /\ links' = Append(links, Link(id, 5900 + emulatorData[id].vncDisplay))
       /\ Len(links') > Len(links) =>
             /\ Len(links') = Len(links) + 1
             /\ links'[Len(links')].emulator \in Running
             /\ links'[Len(links')].vncSocket = "connecting"]_vars

\* C19 witness: one upgrade was accepted while the session ran, and a
\* later one was refused with 503 after it had stopped.
C19_Witness ==
    /\ response.op = "upgrade" /\ response.status = 503
    /\ Len(links) > 0
    /\ \E id \in emulators : ~emulatorData[id].running

\* One end of link l has closed or failed.
Broken(l) ==
    /\ l \in DOMAIN links
    /\ links[l].ws # "open" \/ links[l].vncSocket \notin {"connecting", "open"}

\* Both ends of link l are closed and the table has no entry for it.
TornDown(l) ==
    /\ l \in DOMAIN links
    /\ links[l].ws = "closed"
    /\ links[l].vncSocket = "closed"
    /\ l \notin vncConnections

\* C20 (SpecRelayLive): once one end of an accepted link has closed or
\* failed, also before the connect callback has run, eventually both ends
\* are closed and vncConnections has no entry for the link (or the server
\* process has ended).
C20_LinkTornDown ==
    \A l \in Links : [](Broken(l) => <>(TornDown(l) \/ Crashed))

\* The arrival numbers 1..n in order.
Arrivals(n) == [i \in 1..n |-> i]

\* C21 (SpecForward): on every accepted link, the messages written to the
\* TCP socket are the messages received from the client, each once and in
\* arrival order, and the chunks sent to the client are the chunks received
\* from the TCP socket, each once and in arrival order, as long as both
\* ends of the link are open or the dial is still pending.
C21_RelayedExactlyOnce ==
    \A l \in DOMAIN links :
        links[l].ws = "open" /\ links[l].vncSocket \in {"connecting", "open"}
            => /\ links[l].written = Arrivals(links[l].received)
               /\ links[l].sent = Arrivals(links[l].chunks)

\* Link l is alive: the client is connected and the TCP socket is being
\* dialled or is connected.
Alive(l) ==
    /\ l \in DOMAIN links
    /\ links[l].ws = "open"
    /\ links[l].vncSocket \in {"connecting", "open"}

\* C22 (SpecReuse): while a link accepted for session S is alive, from the
\* moment it dials port 5900 + S's display, no other session created after
\* S is registered, running and holding that display.
C22_NoRelayToReusedSlot ==
    \A l \in DOMAIN links :
        Alive(l) =>
            /\ links[l].vncPort = 5900 + emulatorData[links[l].emulator].vncDisplay
            /\ \A id \in Running :
                   id > links[l].emulator
                       => 5900 + emulatorData[id].vncDisplay # links[l].vncPort

\* C23 (SpecRelay): when the dial of a link fails, the error is handled:
\* the server process keeps running, the client connection of the link is
\* closed or closing, vncConnections has no entry for the link, and the
\* sessions and the other links are left as they were.
C23_DialFailureHandled ==
    [][\A l \in Links :
          VncConnectError(l)
              => /\ ~Crashed'
                 /\ links'[l].ws \in {"closing", "closed"}
                 /\ l \notin vncConnections'
                 /\ \A k \in DOMAIN links \ {l} : links'[k] = links[k]
                 /\ UNCHANGED sessionVars]_vars

\* Session id is registered, marked not running, and the last line of its
\* buffer is the message of kind k.
Failed(id, k) ==
    /\ id \in emulators
    /\ ~emulatorData[id].running
    /\ emulatorData[id].outputBuffer # <<>>
    /\ emulatorData[id].outputBuffer[Len(emulatorData[id].outputBuffer)].k = k

\* Session id is registered and its launch threw: it has no process.
LaunchThrew(id) == id \in emulators /\ emulatorData[id].process = Null

\* C24 (SpecRelay): a create whose spawn throws leaves the session in the
\* registry, marked not running, with the error message at the end of its
\* buffer, and so does the 'error' event of the process of a registered
\* session; a status query for a session whose launch threw is answered
\* 200 with running false, and the first one returns the error message.
C24_SpawnFailureRecorded ==
    [][\A id \in Ids :
          /\ ResumeEmulator(id, TRUE, TRUE, TRUE) => Failed(id, "spawnerr")'
          /\ (ProcError(id) /\ id \in emulators) => Failed(id, "error")'
          /\ (EmulatorStatus(id) /\ LaunchThrew(id))
                => /\ response'.status = 200
                   /\ ~response'.running
                   /\ emulatorData[id].lastReadPosition = 0
                         => \E i \in DOMAIN response'.output :
                               response'.output[i].k = "spawnerr"]_vars

\* C24 witness: the status query of a session whose spawn threw was
\* answered 200 with the error message.
C24_Witness ==
    /\ \E id \in Ids : LaunchThrew(id) /\ Failed(id, "spawnerr")
    /\ response.op = "status" /\ response.status = 200 /\ ~response.running
    /\ \E i \in DOMAIN response.output : response.output[i].k = "spawnerr"

\* C25 (SpecPool): after a create whose launch step throws, the display
\* the create had acquired is no longer in the used set.
C25_FailedCreateReleases ==
    [][\A id \in Ids :
          ResumeEmulator(id, TRUE, TRUE, TRUE)
              => awaiting[id] \notin usedVncDisplays']_vars

\* C26 (SpecPool): whether or not the engine and the image are found, a
\* create whose launch does not throw is answered 200 with the session
\* registered and running; without the engine or without the image the
\* session runs the simulated producer; and the flag of the response says
\* simulated (hasImage false) exactly when the simulated producer is used.
C26_ModeFlagSaysSimulated ==
    [][\A id \in Ids, imagePath \in BOOLEAN, qemuPath \in BOOLEAN :
          ResumeEmulator(id, imagePath, qemuPath, FALSE)
              => /\ response'.op = "create" /\ response'.status = 200
                 /\ id \in emulators' /\ emulatorData'[id].running
                 /\ ~(imagePath /\ qemuPath) => emulatorData'[id].process = "sim"
                 /\ ~response'.hasImage <=> emulatorData'[id].process = "sim"]_vars

\* Session id was created with the simulated producer.
Simulated(id) == id \in DOMAIN emulatorData /\ emulatorData[id].process = "sim"

\* The buffer of session id contains the line 'Browser environment ready!'.
Ready(id) ==
    /\ id \in DOMAIN emulatorData
    /\ \E i \in DOMAIN emulatorData[id].outputBuffer :
          /\ emulatorData[id].outputBuffer[i].k = "sim"
          /\ emulatorData[id].outputBuffer[i].v = ReadyLine

\* Session id was created with the simulated producer and is marked
\* running, or not running.
SimRunning(id) == Simulated(id) /\ emulatorData[id].running
SimStopped(id) == Simulated(id) /\ ~emulatorData[id].running

\* C27 (SpecSimLive): a session created in simulated mode is eventually
\* stopped or has had all its timers fire, and then its buffer contains
\* the ready line and its running flag is true; and the running flag of a
\* simulated session goes from true to false only in a stop request.
C27_SimulatedBecomesReady ==
    /\ \A id \in Ids :
          [](Simulated(id) =>
                <>(\/ SimStopped(id)
                   \/ /\ simFired[id] = NumSimLines
                      /\ Ready(id)
                      /\ SimRunning(id)))
    /\ [][\A id \in Ids :
             (SimRunning(id) /\ ~SimRunning(id)') => StopEmulator(id)]_vars

\* C27 witness: all the timers of a simulated session have fired, the
\* ready line is in its buffer and it is running.
C27_Witness ==
    \E id \in emulators :
        /\ SimRunning(id)
        /\ simFired[id] = NumSimLines
        /\ Ready(id)

\* The tokens of buffer b follow each other as they were appended: none
\* is missing, repeated or out of place behind the first.
InOrder(b) == \A i \in 1..(Len(b) - 1) : b[i + 1].n = b[i].n + 1

\* The tokens of process output in buffer b that belong to chunk c.
ChunkTokens(b, c) ==
    SelectSeq(b, LAMBDA t : t.k \in {"out", "err", "tag"} /\ t.v = c)

\* The last count tokens of buffer b.
LastTokens(b, count) == SubSeq(b, Len(b) - count + 1, Len(b))

\* C28 (SpecStreams): the tokens of every buffer are in the order of their
\* arrival with none missing or repeated behind the first; a chunk that
\* arrives on stdout or stderr of the process of a session is, after its
\* data event, the end of the buffer of that session (all of it, or as
\* much as the buffer holds), a stdout chunk without a prefix and a stderr
\* chunk behind the prefix 'ERROR: '; and the data event changes the
\* buffer of no other session.
C28_ChunksInArrivalOrder ==
    /\ [](\A id \in DOMAIN emulatorData : InOrder(emulatorData[id].outputBuffer))
    /\ [][\A id \in Ids, len \in ChunkLens :
             LET b == emulatorData'[id].outputBuffer
                 c == ChunkTokens(b, dataEvents')
             IN  /\ StdoutData(id, len)
                     => /\ Len(c) = Min(len, MAX_BUFFER_SIZE)
                        /\ c = LastTokens(b, Len(c))
                        /\ \A i \in DOMAIN c : c[i].k = "out"
                        /\ \A other \in DOMAIN emulatorData \ {id} :
                               emulatorData'[other] = emulatorData[other]
                 /\ StderrData(id, len)
                     => /\ Len(c) = Min(len + 1, MAX_BUFFER_SIZE)
                        /\ c = LastTokens(b, Len(c))
                        /\ \A i \in DOMAIN c : c[i].k = IF i = Len(c) - len THEN "tag" ELSE "err"
                        /\ len < MAX_BUFFER_SIZE => c[1].k = "tag"
                        /\ \A other \in DOMAIN emulatorData \ {id} :
                               emulatorData'[other] = emulatorData[other]]_vars

\* C28 witness: two sessions have each received output of their process,
\* one of them a stderr chunk behind a stdout chunk.
C28_Witness ==
    \E a \in DOMAIN emulatorData, b \in DOMAIN emulatorData :
        /\ a # b
        /\ \E i \in DOMAIN emulatorData[a].outputBuffer :
               emulatorData[a].outputBuffer[i].k = "out"
        /\ \E i \in DOMAIN emulatorData[b].outputBuffer :
               emulatorData[b].outputBuffer[i].k = "tag"

\* C29 (SpecList): a list request changes nothing but the response: the
\* buffers, read cursors and running flags, the registry, the used
\* displays, the processes, the timers and the links stay as they were;
\* and the response holds one summary for each session of the registry,
\* with its running flag, and no other.
C29_ListReadOnly ==
    [][ListEmulators =>
          /\ UNCHANGED <<usedVncDisplays, emulators, emulatorData, awaiting, proc,
                         procErrored, removalTimer, vncInfoTimer, simFired, stream,
                         links>>
          /\ response'.op = "list" /\ response'.status = 200
          /\ \A id \in emulators :
                 {e \in response'.list : e.id = id}
                     = {[id |-> id, running |-> emulatorData[id].running]}
          /\ \A e \in response'.list : e.id \in emulators]_vars

\* C29 witness: a list was answered with two sessions, one running and
\* one not, after the cursor of one of them had been moved by a status
\* query.
C29_Witness ==
    /\ response.op = "list"
    /\ \E e \in response.list : e.running
    /\ \E e \in response.list : ~e.running
    /\ \E id \in emulators : emulatorData[id].lastReadPosition > 0

\* C30 (SpecCreate): a create request whose browser is missing or is not
\* one of the configured browsers, or whose ram or vram is missing, is
\* answered 400 and touches nothing: no display is acquired, no id is
\* drawn, no process is launched and no session is registered.
C30_InvalidCreateRejected ==
    [][\A browser \in Browsers, ram \in Fields, vram \in Fields :
          (/\ PostStartEmulator(browser, ram, vram, MaxSessions)
           /\ browser \notin browserConfigs \/ ram = Missing \/ vram = Missing)
              => /\ response'.op = "create" /\ response'.status = 400
                 /\ UNCHANGED <<usedVncDisplays, emulators, emulatorData, awaiting,
                                nextId, proc>>]_vars

\* The numbers of the simulated lines in buffer b, in the order they have
\* in the buffer.
SimLinesOf(b) ==
    LET lines == SelectSeq(b, LAMBDA t : t.k = "sim")
    IN  [i \in DOMAIN lines |-> lines[i].v]

\* C31 (SpecSim): the simulated lines in the buffer of a session are the
\* first lines of the one sequence banner, browser, hardware, RAM, VRAM,
\* VNC port, WebSocket port, ready, note, in that order and each once; so
\* the ready line is in no buffer without the two display lines before it.
C31_SimulatedLinesInOrder ==
    \A id \in DOMAIN emulatorData :
        LET lines == SimLinesOf(emulatorData[id].outputBuffer)
        IN  /\ lines = [i \in 1..simFired[id] |-> i]
            /\ \A i \in DOMAIN lines :
                   lines[i] = ReadyLine
                       => \E j \in 1..(i - 1) : lines[j] = ReadyLine - 1

\* C31 witness: a simulated session has emitted all its lines and was
\* stopped on the way.
C31_Witness ==
    \E id \in DOMAIN emulatorData :
        /\ SimStopped(id)
        /\ simFired[id] = NumSimLines
        /\ Len(SimLinesOf(emulatorData[id].outputBuffer)) = NumSimLines
        /\ emulatorData[id].outputBuffer[Len(emulatorData[id].outputBuffer)].k = "sim"

\* C32 (SpecSim): a status query returns nothing of the startup message
\* that the create response has already delivered.
C32_InitialOutputOnce ==
    [][\A id \in emulators :
          EmulatorStatus(id)
              => \A i \in DOMAIN response'.output : response'.output[i].k # "init"]_vars

\* A terminal status line: 'Emulator stopped (exit code: N)' or 'Error: ...'.
Terminal(t) == t.k \in {"stopped", "error", "spawnerr"}

\* The terminal status lines in buffer b.
TerminalLines(b) == SelectSeq(b, Terminal)

\* C33 (SpecSim): once the buffer of a session holds a terminal status
\* line, no step appends to it: the buffer stays as it is.
C33_NothingAfterTerminal ==
    [][\A id \in DOMAIN emulatorData :
          TerminalLines(emulatorData[id].outputBuffer) # <<>>
              => emulatorData'[id].outputBuffer = emulatorData[id].outputBuffer]_vars

\* C34 (SpecPool): the buffer of a session holds at most one terminal
\* status line.
C34_OneTerminalLine ==
    \A id \in DOMAIN emulatorData :
        Len(TerminalLines(emulatorData[id].outputBuffer)) <= 1

\* The process launched for session id is a real one and has not exited.
ProcessAlive(id) ==
    /\ id \in DOMAIN emulatorData
    /\ emulatorData[id].process = "qemu"
    /\ proc[id] \in {"alive", "killed"}

\* C35 (SpecPool): while the real process launched for a session has not
\* exited, the display it was bound to is in the used set.
C35_SlotHeldWhileProcessAlive ==
    \A id \in DOMAIN emulatorData :
        ProcessAlive(id) => emulatorData[id].vncDisplay \in usedVncDisplays

\* The displays held by the sessions that are running or inside create.
HeldDisplays ==
    {emulatorData[id].vncDisplay : id \in Running}
        \cup {awaiting[id] : id \in DOMAIN awaiting}

\* C36 (SpecPool): the used set is the set of the displays held by the
\* sessions that are running or inside create.
C36_SlotAccountingExact == usedVncDisplays = HeldDisplays

\* C37 (SpecPool): a stop request for a registered session that is not
\* running removes from the used set no display that is held by another
\* session, running or inside create.
C37_StoppedStopFreesNothingHeld ==
    [][\A id \in emulators :
          (StopEmulator(id) /\ ~emulatorData[id].running)
              => \A display \in usedVncDisplays \ usedVncDisplays' :
                    /\ \A other \in Running \ {id} :
                           emulatorData[other].vncDisplay # display
                    /\ \A other \in DOMAIN awaiting : awaiting[other] # display]_vars

\* C40 (SpecShutdown): the SIGINT handler leaves every link that was in
\* vncConnections with its TCP socket destroyed and its WebSocket closed
\* or closing, leaves vncConnections empty, has sent the terminate signal
\* to the process of every session that was running with a process
\* attached, and ends the server.
C40_ShutdownTearsDown ==
    [][Sigint =>
          /\ \A l \in vncConnections :
                 /\ links'[l].vncSocket \in {"destroyed", "closed"}
                 /\ links'[l].ws \in {"closing", "closed"}
          /\ vncConnections' = {}
          /\ \A id \in emulators :
                 (emulatorData[id].process # Null /\ emulatorData[id].running)
                     => proc'[id] \in {"killed", "exited"}
          /\ server' = "exited"]_vars

\* C40 witness: the server has exited, a link of the table was torn down
\* by the handler, a real process was signalled by it and a simulated one
\* was closed by it.
C40_Witness ==
    /\ server = "exited"
    /\ \E l \in DOMAIN links :
           links[l].vncSocket = "destroyed" /\ links[l].ws = "closing"
    /\ \E id \in emulators : emulatorData[id].running /\ proc[id] = "killed"
    /\ \E id \in emulators : emulatorData[id].process = "sim" /\ proc[id] = "exited"

\* C38 (Spec01): no session that has been removed from the registry has a
\* process, real or simulated, that is running without having been sent
\* the terminate signal.
C38_RemovedHasNoLiveProcess ==
    \A id \in DOMAIN emulatorData \ emulators : proc[id] # "alive"

\* C39 (Spec01): the buffer of a session holds each line its simulated
\* producer has emitted once, and none of them behind the 'ERROR: ' tag.
C39_SimulatedLinesOnceUntagged ==
    \A id \in DOMAIN emulatorData :
        LET b == emulatorData[id].outputBuffer
        IN  /\ \A i \in DOMAIN b : b[i].k # "tag"
            /\ \A i \in DOMAIN b, j \in DOMAIN b :
                   (b[i].k = "sim" /\ b[j].k = "sim" /\ b[i].v = b[j].v) => i = j

====
